---- MODULE Spec2Model ----
(***************************************************************************)
(* A model of the control flow of the pyfluent example scripts: the        *)
(* gravity-separator PID loop, the DOE parameter sweeps, the exhaust       *)
(* manifold cluster script, the graphics demo, the import preambles, the   *)
(* PowerPoint report helper and slides, and the Dash app's Solve callback. *)
(* The Fluent solver is external: what it returns is drawn from small sets.*)
(* Real-valued script parameters are kept as integers in a fixed unit.     *)
(***************************************************************************)
EXTENDS Integers, Sequences, FiniteSets, TLC

(***************************************************************************)
(* Gravity separator PID (011-Gravity-Separator-PID/gravitySeparatorPID.py)*)
(***************************************************************************)
VARIABLES pid_pc, pid_i, solver_iterations, session_water_level, gauge_pressure,
          initial_outlet_pressure, integral_error, deriv_error, error_old,
          control_value, current_water_level, water_level, water_pressure,
          level_reads, pressure_sets

pidVars == <<pid_pc, pid_i, solver_iterations, session_water_level, gauge_pressure,
             initial_outlet_pressure, integral_error, deriv_error, error_old,
             control_value, current_water_level, water_level, water_pressure,
             level_reads, pressure_sets>>

(***************************************************************************)
(* DOE sweeps (002-DOE-ML-Mixing-Elbow/FluentDOE.py, 01-DOE-ML/FluentDOE.py*)
(* and 008-MixingTank-DOE/mixingTankDOE.py)                                *)
(***************************************************************************)
VARIABLES doe_script, doe_pc, doe_i, doe_j, doe_session, resArr, torq, power,
          doe_writes

doeVars == <<doe_script, doe_pc, doe_i, doe_j, doe_session, resArr, torq, power,
             doe_writes>>

(***************************************************************************)
(* Exhaust manifold (AnsysLab-exhaust-manifold/exhaust_system11.py): the   *)
(* main script, the deployment futures, the meshing run and the solver runs*)
(***************************************************************************)
VARIABLES ex_pc, ex_iv, ex_it, ex_k, meshing, meshing_future, solvers,
          deploy_future, deploy_args, solver_obj, sessions, meshing_run,
          meshing_session, transfer, runs, run_future,
          mass_flow_results, pressure_results, ex_waited, faults, fault_budget

\* the meshing run thread: run_meshing and update_meshing_display
VARIABLES mr_pc, mr_task, mr_retry, meshing_image_index, gallery,
          display_attempts, display_failures

mrVars == <<mr_pc, mr_task, mr_retry, meshing_image_index, gallery,
            display_attempts, display_failures>>

mainVars == <<ex_pc, ex_iv, ex_it, ex_k, meshing, meshing_future, solvers,
              deploy_future, deploy_args, solver_obj, sessions,
              transfer, runs, run_future,
              mass_flow_results, pressure_results, ex_waited>>

exVars == <<mainVars, meshing_run, meshing_session, faults, fault_budget, mrVars>>

(***************************************************************************)
(* Graphics demo (005-Graphics-Demo/pyFluentGraphics.py and                *)
(* Graphics-Demo/pyFluentGraphics.py), from animate_windows on             *)
(***************************************************************************)
VARIABLES gfx_pc, gfx_future, gfx_iterations, gfx_windows, gfx_frames

gfxVars == <<gfx_pc, gfx_future, gfx_iterations, gfx_windows, gfx_frames>>

(***************************************************************************)
(* The import statements of the scripts that fall back from                *)
(* ansys.fluent.visualization to ansys.fluent.post                         *)
(***************************************************************************)
VARIABLES imp_script, imp_installed, imp_pc, imp_mode, imp_status

impVars == <<imp_script, imp_installed, imp_pc, imp_mode, imp_status>>

(***************************************************************************)
(* adjust_picture_to_fit of the PowerPoint report scripts: the picture as   *)
(* insert_picture left it, and the picture now                              *)
(***************************************************************************)
VARIABLES fit_pc, inserted, picture

fitVars == <<fit_pc, inserted, picture>>

(***************************************************************************)
(* The graphics slides of the PowerPoint reports (016-Dash-App/CreatePPTX.py*)
(* generatePPTX, 015-PPTX-report-generation/powerPointReport.py and         *)
(* 01-beta_examples/03-powerPointReport.py)                                 *)
(***************************************************************************)
VARIABLES rep_script, rep_pc, rep_images, rep_idx, displayed, files, slides

repVars == <<rep_script, rep_pc, rep_images, rep_idx, displayed, files, slides>>

(***************************************************************************)
(* The Dash app (016-Dash-App/DashApp.py): the Solve callbacks, the shared  *)
(* session and the history table                                            *)
(***************************************************************************)
VARIABLES cb_pc, cb_args, cb_calls, outlet_temp, dash_session, tabularData

dashVars == <<cb_pc, cb_args, cb_calls, outlet_temp, dash_session, tabularData>>

vars == <<pidVars, doeVars, exVars, gfxVars, impVars, fitVars, repVars, dashVars>>

nonPid == <<doeVars, exVars, gfxVars, impVars, fitVars, repVars, dashVars>>
nonDoe == <<pidVars, exVars, gfxVars, impVars, fitVars, repVars, dashVars>>
nonEx == <<pidVars, doeVars, gfxVars, impVars, fitVars, repVars, dashVars>>
nonGfx == <<pidVars, doeVars, exVars, impVars, fitVars, repVars, dashVars>>
nonImp == <<pidVars, doeVars, exVars, gfxVars, fitVars, repVars, dashVars>>
nonFit == <<pidVars, doeVars, exVars, gfxVars, impVars, repVars, dashVars>>
nonRep == <<pidVars, doeVars, exVars, gfxVars, impVars, fitVars, dashVars>>
nonDash == <<pidVars, doeVars, exVars, gfxVars, impVars, fitVars, repVars>>

\* pid_kp = 2.0
pid_kp == 2
\* pid_ti = 0.01, kept as the fraction pid_ti_num / pid_ti_den
pid_ti_num == 1
pid_ti_den == 100
pid_td == 1
desired_water_level == 6
pid_update_frequency == 5
total_iterations == 50
delta_t == 1

\* int(total_iterations / pid_update_frequency): true division, then truncation
n == total_iterations \div pid_update_frequency

\* the levels the solver may report: the set point and LevelDev either side
LevelDev == 1
Levels == {desired_water_level - LevelDev, desired_water_level,
           desired_water_level + LevelDev}

\* the outlet pressures the case file may hold before the loop
PressureStep == 7
InitialPressures == {0, PressureStep}

\* np.zeros(k)
Zeros(k) == [x \in 1..k |-> 0]

\* 1.0 / pid_ti
InvTi == pid_ti_den \div pid_ti_num

PidIdle ==
    /\ pid_pc = "off"
    /\ pid_i = 0
    /\ solver_iterations = 0
    /\ session_water_level = 0
    /\ gauge_pressure = 0
    /\ initial_outlet_pressure = 0
    /\ integral_error = 0
    /\ deriv_error = 0
    /\ error_old = 0
    /\ control_value = 0
    /\ current_water_level = 0
    /\ water_level = <<>>
    /\ water_pressure = <<>>
    /\ level_reads = 0
    /\ pressure_sets = 0

\* lines 32-66: the state when the loop is entered
PidInit ==
    /\ pid_pc = "iterate"
    /\ pid_i = 0
    /\ solver_iterations = 0
    /\ session_water_level \in Levels
    /\ gauge_pressure \in InitialPressures
    /\ initial_outlet_pressure = gauge_pressure
    /\ integral_error = 0
    /\ deriv_error = 0
    /\ error_old = 0
    /\ control_value = 0
    /\ current_water_level = 0
    /\ water_level = Zeros(n)
    /\ water_pressure = Zeros(n)
    /\ level_reads = 0
    /\ pressure_sets = 0

\* PidIterate with the loop bound off by one: range(n + 1)
PidIterate_OneMore ==
    /\ pid_pc = "iterate"
    /\ pid_i <= n
    /\ solver_iterations' = solver_iterations + pid_update_frequency
    /\ \E lvl \in Levels : session_water_level' = lvl
    /\ pid_pc' = "read"
    /\ UNCHANGED <<pid_i, gauge_pressure, initial_outlet_pressure, integral_error,
                   deriv_error, error_old, control_value, current_water_level,
                   water_level, water_pressure, level_reads, pressure_sets>>
    /\ UNCHANGED nonPid

\* line 67: for i in range(n), and line 68: session.tui.solve.iterate(...)
PidIterate ==
    /\ pid_pc = "iterate"
    /\ pid_i < n
    /\ solver_iterations' = solver_iterations + pid_update_frequency
    /\ \E lvl \in Levels : session_water_level' = lvl
    /\ pid_pc' = "read"
    /\ UNCHANGED <<pid_i, gauge_pressure, initial_outlet_pressure, integral_error,
                   deriv_error, error_old, control_value, current_water_level,
                   water_level, water_pressure, level_reads, pressure_sets>>
    /\ UNCHANGED nonPid

\* lines 69-78: compute freesurfacelevel, water_level[i] = current_water_level
PidReadLevel ==
    /\ pid_pc = "read"
    /\ current_water_level' = session_water_level
    /\ level_reads' = level_reads + 1
    /\ water_level' = [water_level EXCEPT ![pid_i + 1] = session_water_level]
    /\ pid_pc' = "update"
    /\ UNCHANGED <<pid_i, solver_iterations, session_water_level, gauge_pressure,
                   initial_outlet_pressure, integral_error, deriv_error, error_old,
                   control_value, water_pressure, pressure_sets>>
    /\ UNCHANGED nonPid

\* ControlValue taken as an offset from the pressure commanded last
ControlValue_FromPrevious(base, err, integ, deriv) ==
    gauge_pressure + pid_kp * (err + InvTi * integ + pid_td * deriv)

\* lines 82-84: the control value from the three error terms
ControlValue(base, err, integ, deriv) ==
    base + pid_kp * (err + InvTi * integ + pid_td * deriv)

\* lines 79-89: the PID update and the boundary-condition assignment
PidUpdate ==
    /\ pid_pc = "update"
    /\ LET error == desired_water_level - current_water_level
           integ == integral_error + error * delta_t
           deriv == (error - error_old) \div delta_t
           cv    == ControlValue(initial_outlet_pressure, error, integ, deriv)
       IN  /\ integral_error' = integ
           /\ deriv_error' = deriv
           /\ control_value' = cv
           /\ water_pressure' = [water_pressure EXCEPT ![pid_i + 1] = cv]
           /\ error_old' = error
           /\ gauge_pressure' = cv
    /\ pressure_sets' = pressure_sets + 1
    /\ pid_i' = pid_i + 1
    /\ pid_pc' = "iterate"
    /\ UNCHANGED <<solver_iterations, session_water_level, initial_outlet_pressure,
                   current_water_level, water_level, level_reads>>
    /\ UNCHANGED nonPid

\* line 67 exhausted, lines 91-108: plots and write_case_data
PidFinish ==
    /\ pid_pc = "iterate"
    /\ pid_i >= n
    /\ pid_pc' = "done"
    /\ UNCHANGED <<pid_i, solver_iterations, session_water_level, gauge_pressure,
                   initial_outlet_pressure, integral_error, deriv_error, error_old,
                   control_value, current_water_level, water_level, water_pressure,
                   level_reads, pressure_sets>>
    /\ UNCHANGED nonPid

PidNext == PidIterate \/ PidReadLevel \/ PidUpdate \/ PidFinish

(***************************************************************************)
(* The DOE sweeps.  Velocities are in 0.1 m/s, viscosities in 0.001 Pa s,  *)
(* angular speeds in 0.1 rad/s.  Indices are 1-based here, 0-based in the  *)
(* scripts.                                                                *)
(***************************************************************************)
coldVelArr == <<1, 2, 3, 4, 5, 6, 7>>
hotVelArr == <<8, 10, 12, 14, 16, 18, 20>>
visc == <<1, 3, 6, 10, 25, 50>>
omega == <<10, 25, 60, 100, 150, 200>>

\* session.tui.solve.iterate(5) of the elbow scripts
ElbowIterations == 5
\* session.tui.solve.set.number_of_iterations(2) of the tank script
TankIterations == 2

\* np.zeros((rows, cols))
ZeroMatrix(rows, cols) == [c \in (1..rows) \X (1..cols) |-> 0]

Rows(script) == IF script = "elbow" THEN Len(coldVelArr) ELSE Len(omega)
Cols(script) == IF script = "elbow" THEN Len(hotVelArr) ELSE Len(visc)

\* The solver session after read_case: boundary values of the case file (0
\* stands for them), no solution data, no report definition of the script's.
\* under: the boundary settings under which iterations ran since the last
\* initialization; iters: how many iterations ran since then.
FreshSession(script) ==
    [bc |-> IF script = "elbow" THEN <<0, 0>> ELSE <<0, 0, 0>>,
     niter |-> 0, initialized |-> FALSE, iters |-> 0, under |-> {},
     defs |-> IF script = "elbow" THEN {} ELSE {"torque"}]

\* report_definitions.compute: the value the solver reports is decided by what
\* it iterated on since the last initialization
Compute(session) == [under |-> session.under, iters |-> session.iters]

\* solve.iterate: count more iterations under the boundary values in force
Iterated(session, count) ==
    [session EXCEPT !.iters = @ + count, !.under = @ \cup {session.bc}]

\* solution.initialization() / solve.initialize.initialize_flow()
Initialized(session) ==
    [session EXCEPT !.initialized = TRUE, !.iters = 0, !.under = {}]

DoeIdle ==
    /\ doe_script = "off"
    /\ doe_pc = "off"
    /\ doe_i = 0
    /\ doe_j = 0
    /\ doe_session = <<>>
    /\ resArr = <<>>
    /\ torq = <<>>
    /\ power = <<>>
    /\ doe_writes = <<>>

\* the state when the double loop is entered (FluentDOE.py line 40,
\* mixingTankDOE.py line 33)
DoeInit ==
    /\ doe_script \in {"elbow", "tank"}
    /\ doe_pc = IF doe_script = "elbow" THEN "inlet1" ELSE "material"
    /\ doe_i = 1
    /\ doe_j = 1
    /\ doe_session = FreshSession(doe_script)
    /\ resArr = IF doe_script = "elbow"
                THEN ZeroMatrix(Len(coldVelArr), Len(hotVelArr)) ELSE <<>>
    /\ torq = IF doe_script = "tank" THEN ZeroMatrix(Len(omega), Len(visc)) ELSE <<>>
    /\ power = IF doe_script = "tank" THEN ZeroMatrix(Len(omega), Len(visc)) ELSE <<>>
    /\ doe_writes = ZeroMatrix(Rows(doe_script), Cols(doe_script))

\* the two for statements: the next (i, j) in row-major order, or the end
DoeAdvance(first) ==
    IF doe_j < Cols(doe_script)
    THEN doe_i' = doe_i /\ doe_j' = doe_j + 1 /\ doe_pc' = first
    ELSE IF doe_i < Rows(doe_script)
    THEN doe_i' = doe_i + 1 /\ doe_j' = 1 /\ doe_pc' = first
    ELSE doe_i' = doe_i /\ doe_j' = doe_j /\ doe_pc' = "done"

\* FluentDOE.py lines 43-44: inlet1.vmag.value = coldVel
ElbowSetInlet1 ==
    /\ doe_script = "elbow" /\ doe_pc = "inlet1"
    /\ doe_session' = [doe_session EXCEPT !.bc[1] = coldVelArr[doe_i]]
    /\ doe_pc' = "inlet2"
    /\ UNCHANGED <<doe_script, doe_i, doe_j, resArr, torq, power, doe_writes>>
    /\ UNCHANGED nonDoe

\* FluentDOE.py lines 46-47: inlet2.vmag.value = hotVel
ElbowSetInlet2 ==
    /\ doe_script = "elbow" /\ doe_pc = "inlet2"
    /\ doe_session' = [doe_session EXCEPT !.bc[2] = hotVelArr[doe_j]]
    /\ doe_pc' = "initialize"
    /\ UNCHANGED <<doe_script, doe_i, doe_j, resArr, torq, power, doe_writes>>
    /\ UNCHANGED nonDoe

\* ElbowInitialization that leaves the solution data as it is
ElbowInitialization_Skipped ==
    /\ doe_script = "elbow" /\ doe_pc = "initialize"
    /\ doe_session' = [doe_session EXCEPT !.initialized = TRUE]
    /\ doe_pc' = "iterate"
    /\ UNCHANGED <<doe_script, doe_i, doe_j, resArr, torq, power, doe_writes>>
    /\ UNCHANGED nonDoe

\* FluentDOE.py line 49: session.solution.initialization()
ElbowInitialization ==
    /\ doe_script = "elbow" /\ doe_pc = "initialize"
    /\ doe_session' = Initialized(doe_session)
    /\ doe_pc' = "iterate"
    /\ UNCHANGED <<doe_script, doe_i, doe_j, resArr, torq, power, doe_writes>>
    /\ UNCHANGED nonDoe

\* FluentDOE.py line 50: session.tui.solve.iterate(5)
ElbowIterate ==
    /\ doe_script = "elbow" /\ doe_pc = "iterate"
    /\ doe_session' = Iterated(doe_session, ElbowIterations)
    /\ doe_pc' = "report"
    /\ UNCHANGED <<doe_script, doe_i, doe_j, resArr, torq, power, doe_writes>>
    /\ UNCHANGED nonDoe

\* FluentDOE.py lines 52-64: (re)define the report outlet-temp-avg
ElbowDefineReport ==
    /\ doe_script = "elbow" /\ doe_pc = "report"
    /\ doe_session' = [doe_session EXCEPT !.defs = @ \cup {"outlet-temp-avg"}]
    /\ doe_pc' = "compute"
    /\ UNCHANGED <<doe_script, doe_i, doe_j, resArr, torq, power, doe_writes>>
    /\ UNCHANGED nonDoe

\* FluentDOE.py lines 66-70: compute the report, resArr[idx1][idx2] = output...;
\* idx1 and idx2 are the 1-tuples np.ndenumerate yields, so resArr[idx1] is the
\* row (a view) and [idx2] its element
ElbowCompute ==
    /\ doe_script = "elbow" /\ doe_pc = "compute"
    /\ "outlet-temp-avg" \in doe_session.defs
    /\ resArr' = [resArr EXCEPT ![<<doe_i, doe_j>>] = Compute(doe_session)]
    /\ doe_writes' = [doe_writes EXCEPT ![<<doe_i, doe_j>>] = @ + 1]
    /\ DoeAdvance("inlet1")
    /\ UNCHANGED <<doe_script, doe_session, torq, power>>
    /\ UNCHANGED nonDoe

\* mixingTankDOE.py lines 35-47: materials.change_create(..., visc[j], ...)
TankSetMaterial ==
    /\ doe_script = "tank" /\ doe_pc = "material"
    /\ doe_session' = [doe_session EXCEPT !.bc[1] = visc[doe_j]]
    /\ doe_pc' = "fluid"
    /\ UNCHANGED <<doe_script, doe_i, doe_j, resArr, torq, power, doe_writes>>
    /\ UNCHANGED nonDoe

\* mixingTankDOE.py lines 48-50: set.fluid(["fluid_mrf*"], "mrf-omega", ...)
TankSetFluid ==
    /\ doe_script = "tank" /\ doe_pc = "fluid"
    /\ doe_session' = [doe_session EXCEPT !.bc[2] = omega[doe_i]]
    /\ doe_pc' = "wall"
    /\ UNCHANGED <<doe_script, doe_i, doe_j, resArr, torq, power, doe_writes>>
    /\ UNCHANGED nonDoe

\* mixingTankDOE.py lines 51-53: set.wall(["wall_shaft*"], "omega", ...)
TankSetWall ==
    /\ doe_script = "tank" /\ doe_pc = "wall"
    /\ doe_session' = [doe_session EXCEPT !.bc[3] = omega[doe_i]]
    /\ doe_pc' = "niter"
    /\ UNCHANGED <<doe_script, doe_i, doe_j, resArr, torq, power, doe_writes>>
    /\ UNCHANGED nonDoe

\* mixingTankDOE.py line 54: solve.set.number_of_iterations(2)
TankSetIterations ==
    /\ doe_script = "tank" /\ doe_pc = "niter"
    /\ doe_session' = [doe_session EXCEPT !.niter = TankIterations]
    /\ doe_pc' = "initialize"
    /\ UNCHANGED <<doe_script, doe_i, doe_j, resArr, torq, power, doe_writes>>
    /\ UNCHANGED nonDoe

\* mixingTankDOE.py line 55: solve.initialize.initialize_flow()
TankInitialize ==
    /\ doe_script = "tank" /\ doe_pc = "initialize"
    /\ doe_session' = Initialized(doe_session)
    /\ doe_pc' = "iterate"
    /\ UNCHANGED <<doe_script, doe_i, doe_j, resArr, torq, power, doe_writes>>
    /\ UNCHANGED nonDoe

\* mixingTankDOE.py line 56: solve.iterate(), as many as the session is set to
TankIterate ==
    /\ doe_script = "tank" /\ doe_pc = "iterate"
    /\ doe_session' = Iterated(doe_session, doe_session.niter)
    /\ doe_pc' = "compute"
    /\ UNCHANGED <<doe_script, doe_i, doe_j, resArr, torq, power, doe_writes>>
    /\ UNCHANGED nonDoe

\* omega[i] * val, kept as the pair of its factors
Times(a, val) == [factor |-> a, of |-> val]

\* mixingTankDOE.py lines 57-68: compute torque, torq[i][j] = val,
\* power[i][j] = omega[i] * val
TankCompute ==
    /\ doe_script = "tank" /\ doe_pc = "compute"
    /\ "torque" \in doe_session.defs
    /\ LET val == Compute(doe_session)
       IN  /\ torq' = [torq EXCEPT ![<<doe_i, doe_j>>] = val]
           /\ power' = [power EXCEPT ![<<doe_i, doe_j>>] = Times(omega[doe_i], val)]
    /\ doe_writes' = [doe_writes EXCEPT ![<<doe_i, doe_j>>] = @ + 1]
    /\ DoeAdvance("material")
    /\ UNCHANGED <<doe_script, doe_session, resArr>>
    /\ UNCHANGED nonDoe

DoeNext ==
    \/ ElbowSetInlet1 \/ ElbowSetInlet2 \/ ElbowInitialization \/ ElbowIterate
    \/ ElbowDefineReport \/ ElbowCompute
    \/ TankSetMaterial \/ TankSetFluid \/ TankSetWall \/ TankSetIterations
    \/ TankInitialize \/ TankIterate \/ TankCompute

\* the report of a solution initialized and then iterated count times under bc
ResultFor(bc, count) == [under |-> {bc}, iters |-> count]

\* the cells before (i, j) in the order the double loop visits them
Visited(c) ==
    \/ doe_pc = "done"
    \/ c[1] < doe_i
    \/ c[1] = doe_i /\ c[2] < doe_j

C1_BlocksAndUpdates ==
    /\ solver_iterations <= total_iterations
    /\ pid_pc \in {"iterate", "done"} =>
          /\ solver_iterations = pid_update_frequency * pid_i
          /\ level_reads = pid_i /\ pressure_sets = pid_i
    /\ pid_pc = "read" =>
          /\ solver_iterations = pid_update_frequency * (pid_i + 1)
          /\ level_reads = pid_i /\ pressure_sets = pid_i
    /\ pid_pc = "update" =>
          /\ solver_iterations = pid_update_frequency * (pid_i + 1)
          /\ level_reads = pid_i + 1 /\ pressure_sets = pid_i
    /\ pressure_sets > 0 => gauge_pressure = control_value
    /\ pid_pc = "done" =>
          /\ pressure_sets * pid_update_frequency <= total_iterations
          /\ total_iterations < (pressure_sets + 1) * pid_update_frequency

C1_Witness ==
    /\ pid_pc = "done"
    /\ pressure_sets = 10
    /\ level_reads = 10
    /\ solver_iterations = 50

\* the error measured at update k (1-based); the error before the first is 0
ErrAt(k) == IF k = 0 THEN 0 ELSE desired_water_level - water_level[k]

RECURSIVE SumErr(_)
SumErr(k) == IF k = 0 THEN 0 ELSE ErrAt(k) + SumErr(k - 1)

\* the closed form of the command at update k, as the claim states it
ClosedForm(k) ==
    initial_outlet_pressure
      + pid_kp * (ErrAt(k) + InvTi * delta_t * SumErr(k)
                    + (pid_td * (ErrAt(k) - ErrAt(k - 1))) \div delta_t)

\* C2: at every update the pressure commanded on the outlet is
\* initial_outlet_pressure + pid_kp * (e_k + (1 / pid_ti) * delta_t * (e_0 + ...
\* + e_k) + pid_td * (e_k - e_(k-1)) / delta_t): an offset from the pressure
\* read before the first iteration, never from the previous command.
C2_ClosedForm ==
    /\ \A k \in 1..pid_i : water_pressure[k] = ClosedForm(k)
    /\ pid_i > 0 => gauge_pressure = ClosedForm(pid_i)

C2_Witness ==
    /\ pid_i >= 3
    /\ initial_outlet_pressure # 0
    /\ ErrAt(1) # 0 /\ ErrAt(2) # ErrAt(1) /\ ErrAt(3) = 0
    /\ gauge_pressure = ClosedForm(pid_i)
    /\ gauge_pressure # initial_outlet_pressure

(***************************************************************************)
(* The exhaust manifold script.  Velocities are in 0.1 m/s, turbulent      *)
(* intensities in 0.01.  A future is "running", "done" or "failed"; the    *)
(* asynchronous decorator starts the call in a thread of its own at once.  *)
(***************************************************************************)
inlet_velocities == <<12, 14>>
inlet_turbulent_intensities == <<5, 15>>

NumSolvers == Len(inlet_velocities) * Len(inlet_turbulent_intensities)
SolverIds == 1..NumSolvers

InletNames == {"inlet-1", "inlet-2", "inlet-3"}

\* the vmag setup_velocity_inlets gives inlet-1: 1 m/s
SetupVmag == 10
\* solve.set.number_of_iterations(5)
SolverIterations == 5
\* the last retry value update_meshing_display still repeats after: retry > 4
RetryLimit == 4
\* how many external faults (a launch or a remote call that raises, a download
\* that leaves no file) one execution may meet
MaxFaults == 6

MeshingTasks == <<"Import CAD and Part Management", "Enclose Fluid Regions (Capping)",
                  "Update Boundaries", "Generate the Volume Mesh">>

\* a solver session as launch_fluent returns it
NewSession ==
    [mesh |-> FALSE, units |-> "m", turbulence |-> "default",
     inlets |-> [nm \in InletNames |-> [vmag |-> 0, turb_intensity |-> 0]],
     outlet |-> "default", reports |-> FALSE, initialized |-> FALSE,
     iters |-> 0]

\* ExhaustFlowSolver.__init__ (lines 700-729); session names the session of
\* the instance this solver launched
NewSolver(id, args) ==
    [session |-> id, inlet_velocity |-> args[1],
     inlet_turbulent_intensity |-> args[2],
     mass_flow_rate_results |-> <<>>, pressure_results |-> <<>>]

ExIdle ==
    /\ ex_pc = "off" /\ ex_iv = 0 /\ ex_it = 0 /\ ex_k = 0
    /\ meshing = "unset" /\ meshing_future = "none"
    /\ solvers = <<>> /\ deploy_future = <<>> /\ deploy_args = <<>>
    /\ solver_obj = <<>> /\ sessions = <<>>
    /\ meshing_run = "none" /\ meshing_session = <<>>
    /\ transfer = "none" /\ runs = <<>> /\ run_future = <<>>
    /\ mass_flow_results = <<>> /\ pressure_results = <<>>
    /\ ex_waited = {} /\ faults = 0 /\ fault_budget = 0
    /\ mr_pc = "off" /\ mr_task = 0 /\ mr_retry = 0 /\ meshing_image_index = 0
    /\ gallery = <<>> /\ display_attempts = <<>> /\ display_failures = <<>>

\* the state when line 853 is reached
ExInit ==
    /\ ex_pc = "create_meshing" /\ ex_iv = 1 /\ ex_it = 1 /\ ex_k = 1
    /\ meshing = "unset" /\ meshing_future = "none"
    /\ solvers = <<>>
    /\ deploy_future = [k \in SolverIds |-> "none"]
    /\ deploy_args = [k \in SolverIds |-> <<>>]
    /\ solver_obj = [k \in SolverIds |-> "none"]
    /\ sessions = [k \in SolverIds |-> "none"]
    /\ meshing_run = "none"
    /\ meshing_session = [launched |-> FALSE, cad |-> FALSE, steps |-> 0, drawn |-> 0]
    /\ transfer = "none" /\ runs = <<>>
    /\ run_future = [k \in SolverIds |-> "none"]
    /\ mass_flow_results = <<>> /\ pressure_results = <<>>
    /\ ex_waited = {} /\ faults = 0 /\ fault_budget = MaxFaults
    /\ mr_pc = "off" /\ mr_task = 1 /\ mr_retry = 0 /\ meshing_image_index = 0
    /\ gallery = <<>>
    /\ display_attempts = [t \in 1..Len(MeshingTasks) |-> 0]
    /\ display_failures = [t \in 1..Len(MeshingTasks) |-> 0]

(***************************************************************************)
(* The meshing run thread: run_meshing (lines 674-682) and                 *)
(* update_meshing_display (lines 139-176)                                  *)
(***************************************************************************)
\* what update_meshing_display returning does to run_meshing: on to the next
\* meshing step, or the end of the run after the fourth task
DisplayReturns ==
    /\ mr_retry' = 0
    /\ IF mr_task < Len(MeshingTasks)
       THEN mr_task' = mr_task + 1 /\ mr_pc' = "mesh" /\ UNCHANGED meshing_run
       ELSE mr_task' = mr_task /\ mr_pc' = "done" /\ meshing_run' = "done"

\* lines 141-149: the draw of the first attempt, the next file name, save_picture
DisplaySaved ==
    /\ meshing_session' =
          IF MeshingTasks[mr_task] = "Import CAD and Part Management" /\ mr_retry = 0
          THEN [meshing_session EXCEPT !.drawn = @ + 1]
          ELSE meshing_session
    /\ meshing_image_index' = meshing_image_index + 1
    /\ display_attempts' = [display_attempts EXCEPT ![mr_task] = @ + 1]

\* lines 675, 677, 679, 681: the meshing steps before each display
MeshingStep ==
    /\ meshing_run = "running" /\ mr_pc = "mesh"
    /\ meshing_session' = [meshing_session EXCEPT !.steps = mr_task]
    /\ mr_pc' = "display"
    /\ UNCHANGED <<mr_task, mr_retry, meshing_image_index, gallery,
                   display_attempts, display_failures, meshing_run, faults,
                   fault_budget, mainVars>>
    /\ UNCHANGED nonEx

\* a remote call of run_meshing raises: the future of the run holds the exception
MeshingRunFails ==
    /\ meshing_run = "running" /\ mr_pc \in {"mesh", "display"}
    /\ faults < fault_budget
    /\ faults' = faults + 1
    /\ mr_pc' = "failed"
    /\ meshing_run' = "failed"
    /\ UNCHANGED <<mr_task, mr_retry, meshing_image_index, gallery,
                   display_attempts, display_failures, meshing_session,
                   fault_budget, mainVars>>
    /\ UNCHANGED nonEx

\* lines 141-172: the picture is saved, downloaded and found in the directory
DisplayDownloaded ==
    /\ meshing_run = "running" /\ mr_pc = "display"
    /\ DisplaySaved
    /\ gallery' = Append(gallery, <<meshing_image_index, MeshingTasks[mr_task]>>)
    /\ DisplayReturns
    /\ UNCHANGED <<display_failures, faults, fault_budget, mainVars>>
    /\ UNCHANGED nonEx

\* DisplayRetry with the retry test one too lax: retry > 5
DisplayRetry_OneMore ==
    /\ meshing_run = "running" /\ mr_pc = "display"
    /\ faults < fault_budget
    /\ ~(mr_retry > RetryLimit + 1)
    /\ faults' = faults + 1
    /\ DisplaySaved
    /\ display_failures' = [display_failures EXCEPT ![mr_task] = @ + 1]
    /\ mr_retry' = mr_retry + 1
    /\ UNCHANGED <<mr_pc, mr_task, gallery, meshing_run, fault_budget, mainVars>>
    /\ UNCHANGED nonEx

\* lines 141-166 and 173-176: the file is not in the directory and retry <= 4:
\* update_meshing_display calls itself with retry + 1
DisplayRetry ==
    /\ meshing_run = "running" /\ mr_pc = "display"
    /\ faults < fault_budget
    /\ ~(mr_retry > RetryLimit)
    /\ faults' = faults + 1
    /\ DisplaySaved
    /\ display_failures' = [display_failures EXCEPT ![mr_task] = @ + 1]
    /\ mr_retry' = mr_retry + 1
    /\ UNCHANGED <<mr_pc, mr_task, gallery, meshing_run, fault_budget, mainVars>>
    /\ UNCHANGED nonEx

\* lines 141-166 and 173-174: the file is not in the directory and retry > 4:
\* return None
DisplayGiveUp ==
    /\ meshing_run = "running" /\ mr_pc = "display"
    /\ faults < fault_budget
    /\ mr_retry > RetryLimit
    /\ faults' = faults + 1
    /\ DisplaySaved
    /\ display_failures' = [display_failures EXCEPT ![mr_task] = @ + 1]
    /\ DisplayReturns
    /\ UNCHANGED <<gallery, fault_budget, mainVars>>
    /\ UNCHANGED nonEx

(***************************************************************************)
(* The deployment threads: async_create_meshing (lines 690-692) and        *)
(* async_create_solver (lines 846-848)                                     *)
(***************************************************************************)
\* ExhaustFTMWorkflow(launcher) returns in its thread
DeployMeshingDone ==
    /\ meshing_future = "running"
    /\ meshing_future' = "done"
    /\ meshing_session' = [meshing_session EXCEPT !.launched = TRUE]
    /\ UNCHANGED <<ex_pc, ex_iv, ex_it, ex_k, meshing, solvers, deploy_future,
                   deploy_args, solver_obj, sessions, meshing_run, transfer, runs,
                   run_future, mass_flow_results, pressure_results,
                   ex_waited, faults, fault_budget, mrVars>>
    /\ UNCHANGED nonEx

\* ExhaustFTMWorkflow(launcher) raises in its thread
DeployMeshingFails ==
    /\ meshing_future = "running"
    /\ faults < fault_budget
    /\ faults' = faults + 1
    /\ meshing_future' = "failed"
    /\ UNCHANGED <<ex_pc, ex_iv, ex_it, ex_k, meshing, solvers, deploy_future,
                   deploy_args, solver_obj, sessions, meshing_run, meshing_session,
                   transfer, runs, run_future, mass_flow_results,
                   pressure_results, ex_waited, fault_budget, mrVars>>
    /\ UNCHANGED nonEx

\* create_solver (lines 842-843) returns in its thread: the solver object
\* exists, with the session its launcher started
DeploySolverDone(k) ==
    /\ deploy_future[k] = "running"
    /\ deploy_future' = [deploy_future EXCEPT ![k] = "done"]
    /\ solver_obj' = [solver_obj EXCEPT ![k] = NewSolver(k, deploy_args[k])]
    /\ sessions' = [sessions EXCEPT ![k] = NewSession]
    /\ UNCHANGED <<ex_pc, ex_iv, ex_it, ex_k, meshing, meshing_future, solvers,
                   deploy_args, meshing_run, meshing_session, transfer, runs,
                   run_future, mass_flow_results, pressure_results,
                   ex_waited, faults, fault_budget, mrVars>>
    /\ UNCHANGED nonEx

\* create_solver raises in its thread
DeploySolverFails(k) ==
    /\ deploy_future[k] = "running"
    /\ faults < fault_budget
    /\ faults' = faults + 1
    /\ deploy_future' = [deploy_future EXCEPT ![k] = "failed"]
    /\ UNCHANGED <<ex_pc, ex_iv, ex_it, ex_k, meshing, meshing_future, solvers,
                   deploy_args, solver_obj, sessions, meshing_run, meshing_session,
                   transfer, runs, run_future, mass_flow_results,
                   pressure_results, ex_waited, fault_budget, mrVars>>
    /\ UNCHANGED nonEx

(***************************************************************************)
(* The main script, lines 853-1057                                         *)
(***************************************************************************)
\* what the main script leaves alone unless an action says otherwise
MainOnly ==
    /\ UNCHANGED <<faults, fault_budget, meshing_image_index, gallery,
                   display_attempts, display_failures, mr_task, mr_retry>>
    /\ UNCHANGED nonEx

\* ExCreateMeshing that deploys in the script's own thread and has the
\* workflow before it goes on: async_create_meshing(...).result()
ExCreateMeshing_Sync ==
    /\ ex_pc = "create_meshing"
    /\ meshing' = "future"
    /\ meshing_future' = "done"
    /\ meshing_session' = [meshing_session EXCEPT !.launched = TRUE]
    /\ ex_waited' = ex_waited \cup {<<"meshing", 0>>}
    /\ ex_pc' = "create_solvers"
    /\ UNCHANGED <<ex_iv, ex_it, ex_k, solvers, deploy_future, deploy_args,
                   solver_obj, sessions, meshing_run, transfer,
                   runs, run_future, mass_flow_results, pressure_results, mr_pc>>
    /\ MainOnly

\* line 853: meshing = async_create_meshing(launcher=launch_meshing)
ExCreateMeshing ==
    /\ ex_pc = "create_meshing"
    /\ meshing' = "future"
    /\ meshing_future' = "running"
    /\ ex_pc' = "create_solvers"
    /\ UNCHANGED <<ex_iv, ex_it, ex_k, solvers, deploy_future, deploy_args,
                   solver_obj, sessions, meshing_run, meshing_session, transfer,
                   runs, run_future, mass_flow_results, pressure_results,
                   ex_waited, mr_pc>>
    /\ MainOnly

\* lines 859-867: solvers.append(async_create_solver(...)) for the next pair
ExCreateSolver ==
    /\ ex_pc = "create_solvers"
    /\ LET k == Len(solvers) + 1
       IN  /\ solvers' = Append(solvers, [kind |-> "future", id |-> k])
           /\ deploy_future' = [deploy_future EXCEPT ![k] = "running"]
           /\ deploy_args' = [deploy_args EXCEPT ![k] =
                                <<inlet_velocities[ex_iv],
                                  inlet_turbulent_intensities[ex_it]>>]
    /\ IF ex_it < Len(inlet_turbulent_intensities)
       THEN ex_it' = ex_it + 1 /\ ex_iv' = ex_iv /\ ex_pc' = ex_pc
       ELSE IF ex_iv < Len(inlet_velocities)
       THEN ex_it' = 1 /\ ex_iv' = ex_iv + 1 /\ ex_pc' = ex_pc
       ELSE ex_it' = ex_it /\ ex_iv' = ex_iv /\ ex_pc' = "download_cad"
    /\ UNCHANGED <<ex_k, meshing, meshing_future, solver_obj, sessions,
                   meshing_run, meshing_session, transfer, runs, run_future,
                   mass_flow_results, pressure_results, ex_waited, mr_pc>>
    /\ MainOnly

\* lines 873-875: examples.download_file("exhaust_system.fmd", ...)
ExDownloadCad ==
    /\ ex_pc = "download_cad"
    /\ ex_pc' = "wait_meshing"
    /\ UNCHANGED <<ex_iv, ex_it, ex_k, meshing, meshing_future, solvers,
                   deploy_future, deploy_args, solver_obj, sessions, meshing_run,
                   meshing_session, transfer, runs, run_future,
                   mass_flow_results, pressure_results, ex_waited, mr_pc>>
    /\ MainOnly

\* line 879: meshing = meshing.result(): blocks until the future is resolved,
\* and raises what the deployment raised
ExWaitMeshing ==
    /\ ex_pc = "wait_meshing"
    /\ meshing_future \in {"done", "failed"}
    /\ ex_waited' = ex_waited \cup {<<"meshing", 0>>}
    /\ IF meshing_future = "done"
       THEN meshing' = "workflow" /\ ex_pc' = "upload_cad"
       ELSE meshing' = meshing /\ ex_pc' = "crashed"
    /\ UNCHANGED <<ex_iv, ex_it, ex_k, meshing_future, solvers, deploy_future,
                   deploy_args, solver_obj, sessions, meshing_run, meshing_session,
                   transfer, runs, run_future, mass_flow_results,
                   pressure_results, mr_pc>>
    /\ MainOnly

\* lines 887-889: meshing.session.upload(...)
ExUploadCad ==
    /\ ex_pc = "upload_cad"
    /\ meshing_session' = [meshing_session EXCEPT !.cad = TRUE]
    /\ ex_pc' = "start_meshing_run"
    /\ UNCHANGED <<ex_iv, ex_it, ex_k, meshing, meshing_future, solvers,
                   deploy_future, deploy_args, solver_obj, sessions, meshing_run,
                   transfer, runs, run_future, mass_flow_results,
                   pressure_results, ex_waited, mr_pc>>
    /\ MainOnly

\* line 896: meshing_run = async_run_meshing(meshing)
ExStartMeshingRun ==
    /\ ex_pc = "start_meshing_run"
    /\ meshing_run' = "running"
    /\ mr_pc' = "mesh"
    /\ ex_k' = 1
    /\ ex_pc' = "wait_solvers"
    /\ UNCHANGED <<ex_iv, ex_it, meshing, meshing_future, solvers, deploy_future,
                   deploy_args, solver_obj, sessions, meshing_session, transfer,
                   runs, run_future, mass_flow_results, pressure_results,
                   ex_waited>>
    /\ MainOnly

\* lines 900-904: try: solvers[i] = solvers[i].result() except: print("error")
ExWaitSolver ==
    /\ ex_pc = "wait_solvers"
    /\ ex_k <= Len(solvers)
    /\ LET k == solvers[ex_k].id
       IN  /\ deploy_future[k] \in {"done", "failed"}
           /\ ex_waited' = ex_waited \cup {<<"solver", k>>}
           /\ solvers' = IF deploy_future[k] = "done"
                         THEN [solvers EXCEPT ![ex_k] = [kind |-> "solver", id |-> k]]
                         ELSE solvers
    /\ ex_k' = ex_k + 1
    /\ ex_pc' = IF ex_k < Len(solvers) THEN ex_pc ELSE "wait_meshing_run"
    /\ UNCHANGED <<ex_iv, ex_it, meshing, meshing_future, deploy_future,
                   deploy_args, solver_obj, sessions, meshing_run, meshing_session,
                   transfer, runs, run_future, mass_flow_results,
                   pressure_results, mr_pc>>
    /\ MainOnly

\* ExWaitMeshingRun that goes on without the result of the run
ExWaitMeshingRun_NoWait ==
    /\ ex_pc = "wait_meshing_run"
    /\ ex_waited' = ex_waited \cup {<<"meshing_run", 0>>}
    /\ ex_pc' = IF meshing_run = "failed" THEN "crashed" ELSE "transfer"
    /\ UNCHANGED <<ex_iv, ex_it, ex_k, meshing, meshing_future, solvers,
                   deploy_future, deploy_args, solver_obj, sessions, meshing_run,
                   meshing_session, transfer, runs, run_future,
                   mass_flow_results, pressure_results, mr_pc>>
    /\ MainOnly

\* line 908: meshing_run.result()
ExWaitMeshingRun ==
    /\ ex_pc = "wait_meshing_run"
    /\ meshing_run \in {"done", "failed"}
    /\ ex_waited' = ex_waited \cup {<<"meshing_run", 0>>}
    /\ ex_pc' = IF meshing_run = "done" THEN "transfer" ELSE "crashed"
    /\ UNCHANGED <<ex_iv, ex_it, ex_k, meshing, meshing_future, solvers,
                   deploy_future, deploy_args, solver_obj, sessions, meshing_run,
                   meshing_session, transfer, runs, run_future,
                   mass_flow_results, pressure_results, mr_pc>>
    /\ MainOnly

\* lines 911-913: the arguments of transfer_case are evaluated (solver.session
\* of a Future raises AttributeError) and the call is entered
ExTransferBegin ==
    /\ ex_pc = "transfer"
    /\ IF \A x \in 1..Len(solvers) : solvers[x].kind = "solver"
       THEN transfer' = "begun" /\ ex_pc' = "transferring"
       ELSE transfer' = transfer /\ ex_pc' = "crashed"
    /\ UNCHANGED <<ex_iv, ex_it, ex_k, meshing, meshing_future, solvers,
                   deploy_future, deploy_args, solver_obj, sessions, meshing_run,
                   meshing_session, runs, run_future, mass_flow_results,
                   pressure_results, ex_waited, mr_pc>>
    /\ MainOnly

\* lines 911-919: transfer_case returns: every session passed has the mesh
ExTransferReturn ==
    /\ ex_pc = "transferring"
    /\ transfer' = "returned"
    /\ sessions' = [k \in DOMAIN sessions |->
                      IF \E x \in 1..Len(solvers) : solver_obj[solvers[x].id].session = k
                      THEN [sessions[k] EXCEPT !.mesh = TRUE]
                      ELSE sessions[k]]
    /\ ex_k' = 1
    /\ ex_pc' = "start_runs"
    /\ UNCHANGED <<ex_iv, ex_it, meshing, meshing_future, solvers, deploy_future,
                   deploy_args, solver_obj, meshing_run, meshing_session, runs,
                   run_future, mass_flow_results, pressure_results,
                   ex_waited, mr_pc>>
    /\ MainOnly

\* lines 925-926: runs.append(async_run_solver(solver))
ExStartRun ==
    /\ ex_pc = "start_runs"
    /\ ex_k <= Len(solvers)
    /\ LET k == solvers[ex_k].id
       IN  /\ runs' = Append(runs, k)
           /\ run_future' = [run_future EXCEPT ![k] = "running"]
    /\ ex_k' = IF ex_k < Len(solvers) THEN ex_k + 1 ELSE 1
    /\ ex_pc' = IF ex_k < Len(solvers) THEN ex_pc ELSE "wait_runs"
    /\ UNCHANGED <<ex_iv, ex_it, meshing, meshing_future, solvers, deploy_future,
                   deploy_args, solver_obj, sessions, meshing_run, meshing_session,
                   transfer, mass_flow_results, pressure_results, ex_waited, mr_pc>>
    /\ MainOnly

\* ExWaitRun that goes on without the result of the run
ExWaitRun_NoWait ==
    /\ ex_pc = "wait_runs"
    /\ ex_k <= Len(runs)
    /\ ex_waited' = ex_waited \cup {<<"run", runs[ex_k]>>}
    /\ ex_k' = ex_k + 1
    /\ ex_pc' = IF run_future[runs[ex_k]] = "failed" THEN "crashed"
                ELSE IF ex_k < Len(runs) THEN ex_pc ELSE "gallery"
    /\ UNCHANGED <<ex_iv, ex_it, meshing, meshing_future, solvers, deploy_future,
                   deploy_args, solver_obj, sessions, meshing_run, meshing_session,
                   transfer, runs, run_future, mass_flow_results,
                   pressure_results, mr_pc>>
    /\ MainOnly

\* lines 928-929: run.result()
ExWaitRun ==
    /\ ex_pc = "wait_runs"
    /\ ex_k <= Len(runs)
    /\ run_future[runs[ex_k]] \in {"done", "failed"}
    /\ ex_waited' = ex_waited \cup {<<"run", runs[ex_k]>>}
    /\ ex_k' = ex_k + 1
    /\ ex_pc' = IF run_future[runs[ex_k]] = "failed" THEN "crashed"
                ELSE IF ex_k < Len(runs) THEN ex_pc ELSE "gallery"
    /\ UNCHANGED <<ex_iv, ex_it, meshing, meshing_future, solvers, deploy_future,
                   deploy_args, solver_obj, sessions, meshing_run, meshing_session,
                   transfer, runs, run_future, mass_flow_results,
                   pressure_results, mr_pc>>
    /\ MainOnly

\* lines 935-945: the gallery table, which indexes four images (IndexError with
\* fewer), then check_mesh
ExShowGallery ==
    /\ ex_pc = "gallery"
    /\ ex_pc' = IF Len(gallery) >= Len(MeshingTasks) THEN "collate_mass" ELSE "crashed"
    /\ UNCHANGED <<ex_iv, ex_it, ex_k, meshing, meshing_future, solvers,
                   deploy_future, deploy_args, solver_obj, sessions, meshing_run,
                   meshing_session, transfer, runs, run_future,
                   mass_flow_results, pressure_results, ex_waited, mr_pc>>
    /\ MainOnly

\* one row of the collation: the two inputs of the solver, then its results
ResultsRow(solver, results) ==
    <<solver.inlet_velocity, solver.inlet_turbulent_intensity>> \o results

\* lines 949-953: mass_flow_results
ExCollateMassFlow ==
    /\ ex_pc = "collate_mass"
    /\ mass_flow_results' =
          [x \in 1..Len(solvers) |->
              ResultsRow(solver_obj[solvers[x].id],
                         solver_obj[solvers[x].id].mass_flow_rate_results)]
    /\ ex_pc' = "collate_pressure"
    /\ UNCHANGED <<ex_iv, ex_it, ex_k, meshing, meshing_future, solvers,
                   deploy_future, deploy_args, solver_obj, sessions, meshing_run,
                   meshing_session, transfer, runs, run_future,
                   pressure_results, ex_waited, mr_pc>>
    /\ MainOnly

\* lines 955-959: pressure_results, and the rest of the script
ExCollatePressure ==
    /\ ex_pc = "collate_pressure"
    /\ pressure_results' =
          [x \in 1..Len(solvers) |->
              ResultsRow(solver_obj[solvers[x].id],
                         solver_obj[solvers[x].id].pressure_results)]
    /\ ex_pc' = "done"
    /\ UNCHANGED <<ex_iv, ex_it, ex_k, meshing, meshing_future, solvers,
                   deploy_future, deploy_args, solver_obj, sessions, meshing_run,
                   meshing_session, transfer, runs, run_future,
                   mass_flow_results, ex_waited, mr_pc>>
    /\ MainOnly

(***************************************************************************)
(* The solver run threads: async_run_solver (lines 828-839).  A run works  *)
(* on the session of its own solver only, so it is one step: the nine calls*)
(* in the order of the source.                                             *)
(***************************************************************************)
\* lines 731-732: define_units
DefineUnits(session) == [session EXCEPT !.units = "mm"]

\* lines 737-738: select_turbulence_model
SelectTurbulenceModel(session) == [session EXCEPT !.turbulence = "kw-sst"]

\* lines 740-746: setup_velocity_inlets: vmag of inlet-1, copied to the others
SetupVelocityInlets(session) ==
    LET one == [session.inlets["inlet-1"] EXCEPT !.vmag = SetupVmag]
    IN  [session EXCEPT !.inlets = [nm \in InletNames |-> one]]

\* the inlet values of the pair the creation loop ended with, whichever
\* solver runs
InletValues_OfLast(solver) ==
    [vmag |-> inlet_velocities[Len(inlet_velocities)],
     turb_intensity |-> inlet_turbulent_intensities[Len(inlet_turbulent_intensities)]]

\* lines 751-752: the values set_inlet_parameters assigns, from the solver itself
InletValues(solver) ==
    [vmag |-> solver.inlet_velocity,
     turb_intensity |-> solver.inlet_turbulent_intensity]

\* lines 748-752: set_inlet_parameters
SetInletParameters(solver, session) ==
    [session EXCEPT !.inlets = [nm \in InletNames |-> InletValues(solver)]]

\* lines 754-757: setup_pressure_outlet
SetupPressureOutlet(session) == [session EXCEPT !.outlet = "turb-intensity 5"]

\* lines 760-778: setup_field_computations
SetupFieldComputations(session) == [session EXCEPT !.reports = TRUE]

\* lines 820-821: initialize
Initialize(session) == [session EXCEPT !.initialized = TRUE, !.iters = 0]

\* lines 823-825: solve
Solve(session) == [session EXCEPT !.iters = @ + SolverIterations]

\* what report_definitions.compute gives for the four reports of one kind:
\* decided by the session it is computed on
Reports(kind, sid, session) ==
    [x \in 1..4 |-> [report |-> kind, session |-> sid,
                     inlet |-> session.inlets["inlet-1"], iters |-> session.iters]]

\* lines 780-818: compute_fields
ComputeFields(solver, session) ==
    [solver EXCEPT
       !.mass_flow_rate_results = Reports("flux", solver.session, session),
       !.pressure_results = Reports("pressure", solver.session, session)]

\* lines 830-838: the session of the solver after the eight calls before
\* compute_fields
SolvedSession(solver, session) ==
    Solve(Initialize(SetupFieldComputations(SetupPressureOutlet(
        SetInletParameters(solver,
            SetupVelocityInlets(SelectTurbulenceModel(DefineUnits(session))))))))

\* what a solver run leaves alone: everything but the sessions, the solver
\* objects and the futures of the runs
RunOnly ==
    /\ UNCHANGED <<ex_pc, ex_iv, ex_it, ex_k, meshing, meshing_future, solvers,
                   deploy_future, deploy_args, meshing_run, meshing_session,
                   transfer, runs, mass_flow_results, pressure_results, ex_waited,
                   fault_budget, mrVars>>
    /\ UNCHANGED nonEx

\* lines 828-839: async_run_solver(solver) returns in its thread
RunSolver(k) ==
    /\ run_future[k] = "running"
    /\ LET sid == solver_obj[k].session
           after == SolvedSession(solver_obj[k], sessions[sid])
       IN  /\ sessions' = [sessions EXCEPT ![sid] = after]
           /\ solver_obj' = [solver_obj EXCEPT ![k] = ComputeFields(solver_obj[k], after)]
    /\ run_future' = [run_future EXCEPT ![k] = "done"]
    /\ UNCHANGED faults
    /\ RunOnly

\* a call of async_run_solver raises: the future of the run holds the
\* exception; nothing reads the session of a failed run afterwards
RunFails(k) ==
    /\ run_future[k] = "running"
    /\ faults < fault_budget
    /\ faults' = faults + 1
    /\ run_future' = [run_future EXCEPT ![k] = "failed"]
    /\ UNCHANGED <<sessions, solver_obj>>
    /\ RunOnly

ExhaustNext ==
    \/ ExCreateMeshing \/ ExCreateSolver \/ ExDownloadCad \/ ExWaitMeshing
    \/ ExUploadCad \/ ExStartMeshingRun \/ ExWaitSolver \/ ExWaitMeshingRun
    \/ ExTransferBegin \/ ExTransferReturn \/ ExStartRun \/ ExWaitRun
    \/ ExShowGallery \/ ExCollateMassFlow \/ ExCollatePressure
    \/ DeployMeshingDone \/ DeployMeshingFails
    \/ \E k \in SolverIds : DeploySolverDone(k)
    \/ \E k \in SolverIds : DeploySolverFails(k)
    \/ MeshingStep \/ MeshingRunFails \/ DisplayDownloaded \/ DisplayRetry
    \/ DisplayGiveUp
    \/ \E k \in SolverIds : RunSolver(k)
    \/ \E k \in SolverIds : RunFails(k)

(***************************************************************************)
(* The graphics demo, lines 243-262 (Graphics-Demo: lines 170-184)         *)
(***************************************************************************)
\* iterate(100)
IterateCount == 100
\* the callback refreshes the windows when event_info.index % 5 == 0
RefreshEvery == 5

GfxIdle ==
    /\ gfx_pc = "off" /\ gfx_future = "none" /\ gfx_iterations = 0
    /\ gfx_windows = "off" /\ gfx_frames = 0

\* the state when line 246 is reached: the session is initialized, the
\* callbacks are registered, the windows are open
GfxInit ==
    /\ gfx_pc = "animate" /\ gfx_future = "none" /\ gfx_iterations = 0
    /\ gfx_windows = "open" /\ gfx_frames = 0

\* line 246: pyvista_windows_manager.animate_windows("", [...])
GfxAnimateWindows ==
    /\ gfx_pc = "animate"
    /\ gfx_windows' = "animating"
    /\ gfx_pc' = "dispatch"
    /\ UNCHANGED <<gfx_future, gfx_iterations, gfx_frames>>
    /\ UNCHANGED nonGfx

\* lines 251-256: iterate(100), asynchronous: the call returns a future at
\* once and the script keeps no reference to it
GfxDispatchIterate ==
    /\ gfx_pc = "dispatch"
    /\ gfx_future' = "running"
    /\ gfx_pc' = "close"
    /\ UNCHANGED <<gfx_iterations, gfx_windows, gfx_frames>>
    /\ UNCHANGED nonGfx

\* line 253 in its thread: one more solver iteration, and lines 201-205: the
\* IterationEndedEvent callback, which refreshes the windows every fifth
GfxIteration ==
    /\ gfx_future = "running"
    /\ gfx_iterations < IterateCount
    /\ gfx_iterations' = gfx_iterations + 1
    /\ gfx_frames' = IF (gfx_iterations + 1) % RefreshEvery = 0
                        /\ gfx_windows = "animating"
                     THEN gfx_frames + 1 ELSE gfx_frames
    /\ UNCHANGED <<gfx_pc, gfx_future, gfx_windows>>
    /\ UNCHANGED nonGfx

\* line 253 in its thread: session.tui.solve.iterate(count) returns
GfxIterateReturns ==
    /\ gfx_future = "running"
    /\ gfx_iterations = IterateCount
    /\ gfx_future' = "done"
    /\ UNCHANGED <<gfx_pc, gfx_iterations, gfx_windows, gfx_frames>>
    /\ UNCHANGED nonGfx

\* line 262: pyvista_windows_manager.close_windows(), which writes the
\* animations
GfxCloseWindows ==
    /\ gfx_pc = "close"
    /\ gfx_windows' = "closed"
    /\ gfx_pc' = "done"
    /\ UNCHANGED <<gfx_future, gfx_iterations, gfx_frames>>
    /\ UNCHANGED nonGfx

GraphicsNext ==
    \/ GfxAnimateWindows \/ GfxDispatchIterate \/ GfxIteration
    \/ GfxIterateReturns \/ GfxCloseWindows

(***************************************************************************)
(* The import statements.  A statement is its line, the package it imports *)
(* from and where it stands: plain, in the try block or in the handler of  *)
(* except ImportError.                                                     *)
(***************************************************************************)
Stmt(line, pkg, block) == [line |-> line, pkg |-> pkg, block |-> block]

Scripts ==
    [graphics005 |->
        <<Stmt(31, "core", "plain"), Stmt(32, "core", "plain"),
          Stmt(33, "visualization", "plain"),
          Stmt(63, "visualization", "try"), Stmt(66, "visualization", "try"),
          Stmt(69, "post", "except"), Stmt(72, "post", "except"),
          Stmt(176, "visualization", "plain"),
          Stmt(198, "core", "plain"), Stmt(248, "core", "plain")>>,
     graphicsDemo |->
        <<Stmt(31, "core", "plain"), Stmt(32, "core", "plain"),
          Stmt(33, "visualization", "plain"),
          Stmt(51, "visualization", "try"), Stmt(52, "visualization", "try"),
          Stmt(54, "post", "except"), Stmt(55, "post", "except"),
          Stmt(127, "visualization", "plain"),
          Stmt(143, "core", "plain"), Stmt(173, "core", "plain")>>,
     ahmed012 |->
        <<Stmt(5, "core", "plain"), Stmt(6, "visualization", "plain"),
          Stmt(128, "visualization", "try"), Stmt(130, "post", "except")>>,
     ahmedReleased |->
        <<Stmt(38, "core", "plain"), Stmt(39, "core", "plain"),
          Stmt(42, "visualization", "try"), Stmt(44, "post", "except"),
          Stmt(46, "visualization", "plain")>>,
     ablation017 |->
        <<Stmt(11, "core", "plain"), Stmt(12, "visualization", "plain"),
          Stmt(273, "visualization", "try"), Stmt(275, "post", "except")>>,
     brake014 |->
        <<Stmt(24, "core", "plain"),
          Stmt(246, "visualization", "try"), Stmt(248, "post", "except")>>,
     demo22R2 |->
        <<Stmt(12, "core", "plain"), Stmt(13, "visualization", "plain"),
          Stmt(40, "core", "plain"),
          Stmt(474, "visualization", "try"), Stmt(475, "visualization", "try"),
          Stmt(476, "visualization", "try"), Stmt(477, "visualization", "try"),
          Stmt(479, "post", "except"), Stmt(480, "post", "except"),
          Stmt(484, "post", "except"), Stmt(485, "post", "except")>>]

ImpIdle ==
    /\ imp_script = "off" /\ imp_installed = {} /\ imp_pc = 0
    /\ imp_mode = "off" /\ imp_status = "off"

\* a script is started where ansys.fluent.core is installed and each of the
\* two post-processing packages is installed or not
ImpInit ==
    /\ imp_script \in DOMAIN Scripts
    /\ imp_installed \in {{"core"} \cup extra : extra \in SUBSET {"visualization", "post"}}
    /\ imp_pc = 1
    /\ imp_mode = "normal"
    /\ imp_status = "running"

\* the statement the script is at
Current == Scripts[imp_script][imp_pc]

\* the first statement at or after from that is not in the handler
RECURSIVE AfterHandler(_, _)
AfterHandler(script, from) ==
    IF from <= Len(script) /\ script[from].block = "except"
    THEN AfterHandler(script, from + 1) ELSE from

\* the first statement of the handler at or after from
RECURSIVE HandlerFrom(_, _)
HandlerFrom(script, from) ==
    IF from <= Len(script) /\ script[from].block # "except"
    THEN HandlerFrom(script, from + 1) ELSE from

ImpAt(block) ==
    /\ imp_status = "running"
    /\ imp_pc <= Len(Scripts[imp_script])
    /\ Current.block = block

\* an import outside any try: ImportError ends the script
ImportPlain ==
    /\ ImpAt("plain")
    /\ IF Current.pkg \in imp_installed
       THEN imp_pc' = imp_pc + 1 /\ imp_status' = imp_status
       ELSE imp_pc' = imp_pc /\ imp_status' = "ImportError"
    /\ UNCHANGED <<imp_script, imp_installed, imp_mode>>
    /\ UNCHANGED nonImp

\* an import in the try block: ImportError enters the handler
ImportTry ==
    /\ ImpAt("try")
    /\ IF Current.pkg \in imp_installed
       THEN imp_pc' = imp_pc + 1 /\ imp_mode' = imp_mode
       ELSE /\ imp_pc' = HandlerFrom(Scripts[imp_script], imp_pc)
            /\ imp_mode' = "handling"
    /\ UNCHANGED <<imp_script, imp_installed, imp_status>>
    /\ UNCHANGED nonImp

\* the try block ended without an exception: the handler is passed over
ImportSkipHandler ==
    /\ ImpAt("except")
    /\ imp_mode = "normal"
    /\ imp_pc' = AfterHandler(Scripts[imp_script], imp_pc)
    /\ UNCHANGED <<imp_script, imp_installed, imp_mode, imp_status>>
    /\ UNCHANGED nonImp

\* an import in the handler: ImportError there ends the script
ImportInHandler ==
    /\ ImpAt("except")
    /\ imp_mode = "handling"
    /\ IF Current.pkg \in imp_installed
       THEN /\ imp_pc' = imp_pc + 1
            /\ imp_status' = imp_status
            /\ imp_mode' = IF AfterHandler(Scripts[imp_script], imp_pc + 1) = imp_pc + 1
                           THEN "normal" ELSE imp_mode
       ELSE imp_pc' = imp_pc /\ imp_status' = "ImportError" /\ imp_mode' = imp_mode
    /\ UNCHANGED <<imp_script, imp_installed>>
    /\ UNCHANGED nonImp

\* the last import statement is behind the script
ImportsDone ==
    /\ imp_status = "running"
    /\ imp_pc > Len(Scripts[imp_script])
    /\ imp_status' = "imported"
    /\ UNCHANGED <<imp_script, imp_installed, imp_pc, imp_mode>>
    /\ UNCHANGED nonImp

ImportsNext ==
    \/ ImportPlain \/ ImportTry \/ ImportSkipHandler \/ ImportInHandler
    \/ ImportsDone

(***************************************************************************)
(* adjust_picture_to_fit (016-Dash-App/CreatePPTX.py lines 66-89,           *)
(* 015-PPTX-report-generation/powerPointReport.py lines 145-168 and         *)
(* 01-beta_examples/03-powerPointReport.py lines 222-240).                  *)
(*                                                                         *)
(* The function computes in Python floats, which are IEEE 754 binary64: a   *)
(* float is kept here as [m, e] with value m * 2^e and 2^52 <= m < 2^53,    *)
(* m a natural number written in limbs of LimbBits bits, lowest limb first. *)
(* The results of / and * are rounded to the nearest float, ties to even.   *)
(***************************************************************************)
\* the mantissa of a binary64 float has 53 bits
MantissaBits == 53
\* the base of a limb: 2^15, so that a product of two limbs is below 2^31
LimbBits == 15
Base == 2^LimbBits
\* 8 limbs hold the 106 bits of a product of two mantissas
Limbs == 8

BigOfInt(k) ==
    [i \in 1..Limbs |-> IF i = 1 THEN k % Base
                        ELSE IF i = 2 THEN (k \div Base) % Base
                        ELSE IF i = 3 THEN k \div (Base * Base)
                        ELSE 0]

\* 2^k as a natural number in limbs
Pow2(k) == [i \in 1..Limbs |-> IF i = (k \div LimbBits) + 1 THEN 2^(k % LimbBits) ELSE 0]

IsZero(a) == \A i \in 1..Limbs : a[i] = 0
IsOdd(a) == a[1] % 2 = 1

RECURSIVE AddFrom(_, _, _, _)
AddFrom(a, b, i, carry) ==
    IF i > Limbs THEN <<>>
    ELSE LET s == a[i] + b[i] + carry
         IN  <<s % Base>> \o AddFrom(a, b, i + 1, s \div Base)

Add(a, b) == AddFrom(a, b, 1, 0)

RECURSIVE SubFrom(_, _, _, _)
SubFrom(a, b, i, borrow) ==
    IF i > Limbs THEN <<>>
    ELSE LET d == a[i] - b[i] - borrow
         IN  IF d < 0 THEN <<d + Base>> \o SubFrom(a, b, i + 1, 1)
                      ELSE <<d>> \o SubFrom(a, b, i + 1, 0)

\* a - b for a >= b
Sub(a, b) == SubFrom(a, b, 1, 0)

RECURSIVE GeqFrom(_, _, _)
GeqFrom(a, b, i) ==
    IF i = 0 THEN TRUE
    ELSE IF a[i] # b[i] THEN a[i] > b[i]
    ELSE GeqFrom(a, b, i - 1)

Geq(a, b) == GeqFrom(a, b, Limbs)

Dbl(a) == Add(a, a)

RECURSIVE HalveFrom(_, _)
HalveFrom(a, i) ==
    IF i > Limbs THEN <<>>
    ELSE <<(a[i] \div 2) + (IF i < Limbs THEN (a[i + 1] % 2) * (Base \div 2) ELSE 0)>>
         \o HalveFrom(a, i + 1)

\* a div 2
Halve(a) == HalveFrom(a, 1)

RECURSIVE MulLimbFrom(_, _, _, _)
MulLimbFrom(a, s, i, carry) ==
    IF i > Limbs THEN <<>>
    ELSE LET p == a[i] * s + carry
         IN  <<p % Base>> \o MulLimbFrom(a, s, i + 1, p \div Base)

RECURSIVE ShiftLimbsFrom(_, _, _)
ShiftLimbsFrom(a, k, i) ==
    IF i > Limbs THEN <<>>
    ELSE <<IF i > k /\ i - k <= Limbs THEN a[i - k] ELSE 0>> \o ShiftLimbsFrom(a, k, i + 1)

\* a * Base^k for k >= 0 (the limbs above the highest are lost), and
\* a div Base^(0 - k) for k < 0
ShiftLimbs(a, k) == ShiftLimbsFrom(a, k, 1)

RECURSIVE MulFrom(_, _, _)
MulFrom(a, b, j) ==
    IF j > Limbs THEN BigOfInt(0)
    ELSE IF b[j] = 0 THEN MulFrom(a, b, j + 1)
    ELSE Add(ShiftLimbs(MulLimbFrom(a, b[j], 1, 0), j - 1), MulFrom(a, b, j + 1))

Mul(a, b) == MulFrom(a, b, 1)

\* the value of a natural number below Base^2
ToInt(a) == a[1] + Base * a[2]

MkFloat(m, e) == [m |-> m, e |-> e]

RECURSIVE Normalized(_, _)
Normalized(m, e) ==
    IF Geq(m, Pow2(MantissaBits - 1)) THEN MkFloat(m, e)
    ELSE IF ~Geq(m, Pow2(MantissaBits - LimbBits))
    THEN Normalized(ShiftLimbs(m, 1), e - LimbBits)
    ELSE Normalized(Dbl(m), e - 1)

\* float(k) for an integer k >= 1: exact
Float(k) == Normalized(BigOfInt(k), 0)

\* the float nearest to q * 2^e (+ a fraction of 2^e that is not 0 iff sticky),
\* for q of MantissaBits + 1 bits: round to nearest, ties to even
Rounded(q, e, sticky) ==
    LET m == Halve(q)
        up == IsOdd(q) /\ (sticky \/ IsOdd(m))
        m1 == IF up THEN Add(m, BigOfInt(1)) ELSE m
    IN  IF Geq(m1, Pow2(MantissaBits)) THEN MkFloat(Halve(m1), e + 2)
        ELSE MkFloat(m1, e + 1)

\* binary long division of r by d, for r < 2 * d, until the quotient has
\* MantissaBits + 1 bits: q = floor(r * 2^(0 - e) / d), and the remainder is
\* 0 iff the division was exact
RECURSIVE LongDiv(_, _, _, _)
LongDiv(r, d, q, e) ==
    IF Geq(q, Pow2(MantissaBits)) THEN [q |-> q, e |-> e, r |-> r]
    ELSE LET ge == Geq(r, d)
             r1 == IF ge THEN Sub(r, d) ELSE r
             q1 == IF ge THEN Add(Dbl(q), BigOfInt(1)) ELSE Dbl(q)
         IN  LongDiv(Dbl(r1), d, q1, e - 1)

\* x / y of two floats
FloatDiv(x, y) ==
    LET dv == LongDiv(x.m, y.m, BigOfInt(0), 1)
    IN  Rounded(dv.q, x.e - y.e + dv.e, ~IsZero(dv.r))

\* p divided by 2 until it has MantissaBits + 1 bits, a whole limb at a time
\* while it has more than a limb too many; sticky iff a bit shifted out was 1
RECURSIVE ShiftSticky(_, _, _)
ShiftSticky(p, e, sticky) ==
    IF ~Geq(p, Pow2(MantissaBits + 1)) THEN [q |-> p, e |-> e, sticky |-> sticky]
    ELSE IF Geq(p, Pow2(MantissaBits + 1 + LimbBits))
    THEN ShiftSticky(ShiftLimbs(p, 0 - 1), e + LimbBits, sticky \/ p[1] # 0)
    ELSE ShiftSticky(Halve(p), e + 1, sticky \/ IsOdd(p))

\* x * y of two floats
FloatMul(x, y) ==
    LET sh == ShiftSticky(Mul(x.m, y.m), x.e + y.e, FALSE)
    IN  Rounded(sh.q, sh.e, sh.sticky)

\* x > y of two positive floats
FloatGt(x, y) == x.e > y.e \/ (x.e = y.e /\ ~Geq(y.m, x.m))

\* m div 2^k
RECURSIVE HalvedTimes(_, _)
HalvedTimes(m, k) ==
    IF k = 0 \/ IsZero(m) THEN m
    ELSE IF k >= LimbBits THEN HalvedTimes(ShiftLimbs(m, 0 - 1), k - LimbBits)
    ELSE HalvedTimes(Halve(m), k - 1)

\* int(x) of a positive float below 2^30: truncation
IntOf(x) == ToInt(HalvedTimes(x.m, 0 - x.e))

\* the sizes of the placeholders
MaxPlaceholder == 9
PlaceholderSizes == {MaxPlaceholder - 2, MaxPlaceholder}
\* the sizes of the image files, in pixels
MaxImage == 9
ImageSizes == 1..MaxImage
\* what insert_picture may have cropped off each side, and where the
\* placeholder is on the slide
CropUnit == 1
PosUnit == 3

FitIdle ==
    /\ fit_pc = "off"
    /\ inserted = <<>>
    /\ picture = <<>>

\* placeholder.insert_picture(file): the picture has the position and the size
\* of the placeholder, and a crop
FitInit ==
    /\ fit_pc = "inserted"
    /\ \E aw \in PlaceholderSizes, ah \in PlaceholderSizes,
          iw \in ImageSizes, ih \in ImageSizes, c \in {0, CropUnit} :
          inserted = [width |-> aw, height |-> ah, left |-> PosUnit, top |-> 2 * PosUnit,
                      crop_top |-> c, crop_left |-> c, crop_bottom |-> c,
                      crop_right |-> c, image |-> [size |-> <<iw, ih>>]]
    /\ picture = inserted

\* Uncropped that leaves the crop of insert_picture
Uncropped_Kept(pic) == pic

\* picture.crop_top = 0 ... picture.crop_right = 0
Uncropped(pic) ==
    [pic EXCEPT !.crop_top = 0, !.crop_left = 0, !.crop_bottom = 0, !.crop_right = 0]

\* PlaceholderWider with the comparison the other way round
PlaceholderWider_Swapped(placeholder_aspect_ratio, image_aspect_ratio) ==
    FloatGt(image_aspect_ratio, placeholder_aspect_ratio)

\* if placeholder_aspect_ratio > image_aspect_ratio:
PlaceholderWider(placeholder_aspect_ratio, image_aspect_ratio) ==
    FloatGt(placeholder_aspect_ratio, image_aspect_ratio)

\* the picture after adjust_picture_to_fit(pic)
Adjusted(pic) ==
    LET available_width == pic.width
        available_height == pic.height
        image_width == pic.image.size[1]
        image_height == pic.image.size[2]
        placeholder_aspect_ratio ==
            FloatDiv(Float(available_width), Float(available_height))
        image_aspect_ratio == FloatDiv(Float(image_width), Float(image_height))
        pos_left == pic.left
        pos_top == pic.top
        uncropped == Uncropped(pic)
        resized ==
            IF PlaceholderWider(placeholder_aspect_ratio, image_aspect_ratio)
            THEN [uncropped EXCEPT
                    !.height = available_height,
                    !.width = IntOf(FloatMul(image_aspect_ratio, Float(available_height)))]
            ELSE [uncropped EXCEPT
                    !.width = available_width,
                    !.height = IntOf(FloatDiv(Float(available_width), image_aspect_ratio))]
    IN  [resized EXCEPT !.left = pos_left, !.top = pos_top]

\* adjust_picture_to_fit(pic)
AdjustPictureToFit ==
    /\ fit_pc = "inserted"
    /\ picture' = Adjusted(picture)
    /\ fit_pc' = "adjusted"
    /\ UNCHANGED <<inserted, nonFit>>

FitNext == AdjustPictureToFit

\* C11: after adjust_picture_to_fit the picture fits its placeholder: its
\* width is at most the placeholder's width, its height at most the
\* placeholder's height, and one of the two equals the placeholder's.
C11_FitsPlaceholder ==
    fit_pc = "adjusted" =>
       /\ picture.width <= inserted.width
       /\ picture.height <= inserted.height
       /\ picture.width = inserted.width \/ picture.height = inserted.height

C11_Witness ==
    /\ fit_pc = "adjusted"
    /\ picture.height = inserted.height
    /\ picture.width < inserted.width
    /\ picture.width > 0

\* the image is wider in aspect than the placeholder, or as wide: the height
\* is the computed dimension
HeightComputed ==
    inserted.width * inserted.image.size[2] <= inserted.image.size[1] * inserted.height

\* C12: the dimension adjust_picture_to_fit computes is the exact proportional
\* value truncated to an integer: floor(image_width * height / image_height)
\* for the width, floor(width * image_height / image_width) for the height.
C12_ExactProportion ==
    fit_pc = "adjusted" =>
       IF HeightComputed
       THEN picture.height =
               (inserted.width * inserted.image.size[2]) \div inserted.image.size[1]
       ELSE picture.width =
               (inserted.image.size[1] * inserted.height) \div inserted.image.size[2]

\* C13: adjust_picture_to_fit does not crop the image and does not move it:
\* after the call the four crop values are 0 and left and top are the ones the
\* picture had before the call, whichever branch resized it.
C13_NoCropNoMove ==
    fit_pc = "adjusted" =>
       /\ picture.crop_top = 0 /\ picture.crop_left = 0
       /\ picture.crop_bottom = 0 /\ picture.crop_right = 0
       /\ picture.left = inserted.left /\ picture.top = inserted.top
       /\ picture.image = inserted.image

C13_Witness ==
    /\ fit_pc = "adjusted"
    /\ inserted.crop_top = CropUnit /\ inserted.crop_left = CropUnit
    /\ picture.height < inserted.height
    /\ picture.left = PosUnit

(***************************************************************************)
(* The graphics slides of the reports: the loop over Images and the        *)
(* residual plot                                                           *)
(***************************************************************************)
\* the graphics objects a case may define
MaxObjects == 3
ObjectNames == 1..MaxObjects

\* what the graphics window of Fluent shows: a graphics object, the residual
\* plot, or something else
ObjectShown(name) == <<"object", name>>
ResidualsShown == <<"residuals", 0>>
OtherShown == <<"other", 0>>
\* a file that was not written, a placeholder with no picture
Absent == <<"absent", 0>>

\* the names of the picture files
ObjectFile(name) == <<"object", name>>
ResidualsFile == <<"residuals", 0>>
FileNames == {ObjectFile(name) : name \in ObjectNames} \cup {ResidualsFile}

\* the lists of object names the Images dictionary may hold, in its order
ImageLists ==
    {l \in UNION {[1..k -> ObjectNames] : k \in 0..MaxObjects} :
        \A a, b \in DOMAIN l : a # b => l[a] # l[b]}

ReportScripts == {"CreatePPTX", "powerPointReport015", "powerPointReport03"}

RepIdle ==
    /\ rep_script = "none" /\ rep_pc = "off" /\ rep_images = <<>> /\ rep_idx = 0
    /\ displayed = OtherShown /\ files = <<>> /\ slides = <<>>

\* the state when the loop over Images is entered
RepInit ==
    /\ rep_script \in ReportScripts
    /\ rep_images \in ImageLists
    /\ rep_idx = 1
    /\ rep_pc = IF rep_images = <<>> THEN "residuals" ELSE "add_slide"
    /\ displayed \in {ObjectShown(name) : name \in ObjectNames} \cup {OtherShown}
    /\ files = [f \in FileNames |-> Absent]
    /\ slides = <<>>

\* slide = prs.slides.add_slide(graph_slide_layout); title.text = image
RepAddSlide ==
    /\ rep_pc = "add_slide"
    /\ slides' = Append(slides, [title |-> ObjectShown(rep_images[rep_idx]),
                                 picture |-> Absent])
    /\ rep_pc' = IF rep_script = "powerPointReport03" THEN "display" ELSE "save"
    /\ UNCHANGED <<rep_script, rep_images, rep_idx, displayed, files, nonRep>>

\* 03-powerPointReport.py line 280: session.tui.display.objects.display(image)
RepDisplay ==
    /\ rep_pc = "display"
    /\ displayed' = ObjectShown(rep_images[rep_idx])
    /\ rep_pc' = "save"
    /\ UNCHANGED <<rep_script, rep_images, rep_idx, files, slides, nonRep>>

\* session.tui.display.save_picture(image + ".jpg"): the file holds what the
\* graphics window shows
RepSavePicture ==
    /\ rep_pc = "save"
    /\ files' = [files EXCEPT ![ObjectFile(rep_images[rep_idx])] = displayed]
    /\ rep_pc' = "insert"
    /\ UNCHANGED <<rep_script, rep_images, rep_idx, displayed, slides, nonRep>>

\* pic = placeholder.insert_picture(image + ".jpg"); adjust_picture_to_fit(pic)
RepInsertPicture ==
    /\ rep_pc = "insert"
    /\ slides' = [slides EXCEPT ![Len(slides)].picture =
                                   files[ObjectFile(rep_images[rep_idx])]]
    /\ rep_idx' = rep_idx + 1
    /\ rep_pc' = IF rep_idx < Len(rep_images) THEN "add_slide" ELSE "residuals"
    /\ UNCHANGED <<rep_script, rep_images, displayed, files, nonRep>>

\* the residual plot: plot.residuals(), save_picture, the slide "Residuals"
RepResiduals ==
    /\ rep_pc = "residuals"
    /\ displayed' = ResidualsShown
    /\ files' = [files EXCEPT ![ResidualsFile] = ResidualsShown]
    /\ slides' = Append(slides, [title |-> ResidualsShown, picture |-> ResidualsShown])
    /\ rep_pc' = "done"
    /\ UNCHANGED <<rep_script, rep_images, rep_idx, nonRep>>

ReportNext ==
    \/ RepAddSlide
    \/ RepDisplay
    \/ RepSavePicture
    \/ RepInsertPicture
    \/ RepResiduals

\* C14: for each graphics object of the Images dictionary the object is
\* displayed in Fluent before its picture is saved: the picture file of the
\* object, and the picture on the slide titled with the object's name, show
\* that object.
C14_PictureShowsObject ==
    /\ \A name \in ObjectNames :
          files[ObjectFile(name)] # Absent => files[ObjectFile(name)] = ObjectShown(name)
    /\ \A x \in 1..Len(slides) :
          slides[x].picture # Absent => slides[x].picture = slides[x].title

(***************************************************************************)
(* The Dash app: Solve (DashApp.py lines 254-305) run by the threads of the *)
(* server on the one session of the module                                  *)
(***************************************************************************)
\* the requests to Solve the server handles, possibly at the same time
Callbacks == {"first", "second"}

\* the values of the inputs: the two materials of the dropdown, the default
\* of the sliders (velocities in tenths) and one step above it for the main
\* inlet velocity, the checklist with and without its one item
Materials == {"water-liquid", "air"}
DefaultTemp == 300
DefaultVel == 5
VelStep == 1
DefaultIts == 5
MainVelocities == {DefaultVel, DefaultVel + VelStep}
\* Python values with their type: None, a number, a list
None == <<"None">>
Number(k) == <<"int", k>>
List(l) == <<"list", l>>
Checklists == {List(<<>>), List(<<"Initialize">>)}
\* n_clicks of the request made when the page is loaded, and of the first click
Clicks == {None, Number(1)}

SolveArgs ==
    [n_clicks : Clicks, material : Materials, main_in_temp : {DefaultTemp},
     main_in_vel : MainVelocities, side_in_temp : {DefaultTemp},
     side_in_vel : {DefaultVel}, numberIts : {DefaultIts}, initialize : Checklists]

\* the settings of the session the callback writes
NoSettings == [material |-> "none", cold_vmag |-> 0, hot_vmag |-> 0, cold_t |-> 0, hot_t |-> 0]

\* the settings the arguments of a callback ask for
SettingsOf(args) ==
    [material |-> args.material, cold_vmag |-> args.main_in_vel,
     hot_vmag |-> args.side_in_vel, cold_t |-> args.main_in_temp,
     hot_t |-> args.side_in_temp]

\* Truthy that takes every value for true
Truthy_Always(value) == TRUE

\* the truth value of a Python object: None, the number 0 and the empty list
\* are false
Truthy(value) ==
    CASE value[1] = "None" -> FALSE
      [] value[1] = "int" -> value[2] # 0
      [] value[1] = "list" -> value[2] # <<>>

DashIdle ==
    /\ cb_pc = <<>> /\ cb_args = <<>> /\ cb_calls = <<>> /\ outlet_temp = <<>>
    /\ dash_session = <<>> /\ tabularData = <<>>

\* lines 11-15: the session after read_case_data, the empty table
DashInit ==
    /\ cb_pc = [c \in Callbacks |-> "idle"]
    /\ cb_args = [c \in Callbacks |-> <<>>]
    /\ cb_calls = [c \in Callbacks |-> <<>>]
    /\ outlet_temp = [c \in Callbacks |-> <<>>]
    /\ dash_session = [settings |-> NoSettings, iterated_under |-> NoSettings,
                       initializations |-> 0, iters |-> 0]
    /\ tabularData = <<>>

\* callback c does the statement at pc: the session and the call are recorded
SessionCall(c, name, session, next) ==
    /\ dash_session' = session
    /\ cb_calls' = [cb_calls EXCEPT ![c] = Append(@, name)]
    /\ cb_pc' = [cb_pc EXCEPT ![c] = next]
    /\ UNCHANGED <<cb_args, outlet_temp, tabularData, nonDash>>

\* the request arrives with the values of the inputs; lines 277-280: if
\* n_clicks: if initialize:
SolveEnter(c) ==
    /\ cb_pc[c] = "idle"
    /\ \E args \in SolveArgs :
          /\ cb_args' = [cb_args EXCEPT ![c] = args]
          /\ cb_pc' = [cb_pc EXCEPT ![c] =
                         IF ~Truthy(args.n_clicks) THEN "return"
                         ELSE IF Truthy(args.initialize) THEN "initialize"
                         ELSE "material"]
    /\ UNCHANGED <<cb_calls, outlet_temp, dash_session, tabularData, nonDash>>

\* line 281: session.solution.initialization.standard_initialize()
SolveStandardInitialize(c) ==
    /\ cb_pc[c] = "initialize"
    /\ SessionCall(c, "standard_initialize",
                   [dash_session EXCEPT !.initializations = @ + 1, !.iters = 0,
                                        !.iterated_under = NoSettings],
                   "material")

\* line 282: ...fluid["fluid"].material = material
SolveSetMaterial(c) ==
    /\ cb_pc[c] = "material"
    /\ SessionCall(c, "material",
                   [dash_session EXCEPT !.settings.material = cb_args[c].material],
                   "cold_vmag")

\* lines 283-285: ...velocity_inlet["cold-inlet"].vmag.value = main_in_vel
SolveSetColdVmag(c) ==
    /\ cb_pc[c] = "cold_vmag"
    /\ SessionCall(c, "cold_vmag",
                   [dash_session EXCEPT !.settings.cold_vmag = cb_args[c].main_in_vel],
                   "hot_vmag")

\* lines 286-288: ...velocity_inlet["hot-inlet"].vmag.value = side_in_vel
SolveSetHotVmag(c) ==
    /\ cb_pc[c] = "hot_vmag"
    /\ SessionCall(c, "hot_vmag",
                   [dash_session EXCEPT !.settings.hot_vmag = cb_args[c].side_in_vel],
                   "cold_t")

\* line 289: ...velocity_inlet["cold-inlet"].t = main_in_temp
SolveSetColdT(c) ==
    /\ cb_pc[c] = "cold_t"
    /\ SessionCall(c, "cold_t",
                   [dash_session EXCEPT !.settings.cold_t = cb_args[c].main_in_temp],
                   "hot_t")

\* line 290: ...velocity_inlet["hot-inlet"].t = side_in_temp
SolveSetHotT(c) ==
    /\ cb_pc[c] = "hot_t"
    /\ SessionCall(c, "hot_t",
                   [dash_session EXCEPT !.settings.hot_t = cb_args[c].side_in_temp],
                   "iterate")

\* line 291: session.solution.run_calculation.iterate(iter_count=numberIts)
SolveIterate(c) ==
    /\ cb_pc[c] = "iterate"
    /\ SessionCall(c, "iterate",
                   [dash_session EXCEPT !.iters = @ + cb_args[c].numberIts,
                                        !.iterated_under = dash_session.settings],
                   "compute")

\* lines 292-294: outlet_temp = ...compute(report_defs=["avg-outlet-temp"])...:
\* the value is that of the solution the session has, under its settings
SolveCompute(c) ==
    /\ cb_pc[c] = "compute"
    /\ outlet_temp' = [outlet_temp EXCEPT ![c] =
                          [iterated_under |-> dash_session.iterated_under,
                           computed_under |-> dash_session.settings,
                           iters |-> dash_session.iters]]
    /\ cb_calls' = [cb_calls EXCEPT ![c] = Append(@, "compute")]
    /\ cb_pc' = [cb_pc EXCEPT ![c] = "append"]
    /\ UNCHANGED <<cb_args, dash_session, tabularData, nonDash>>

\* lines 295-304: tabularData.append({...})
SolveAppend(c) ==
    /\ cb_pc[c] = "append"
    /\ tabularData' = Append(tabularData,
                             [MITtable |-> cb_args[c].main_in_temp,
                              MIVtable |-> cb_args[c].main_in_vel,
                              SITtable |-> cb_args[c].side_in_temp,
                              SIVtable |-> cb_args[c].side_in_vel,
                              MATtable |-> cb_args[c].material,
                              AOTtable |-> outlet_temp[c]])
    /\ cb_pc' = [cb_pc EXCEPT ![c] = "return"]
    /\ UNCHANGED <<cb_args, cb_calls, outlet_temp, dash_session, nonDash>>

\* line 305: return tabularData, ""
SolveReturn(c) ==
    /\ cb_pc[c] = "return"
    /\ cb_pc' = [cb_pc EXCEPT ![c] = "returned"]
    /\ UNCHANGED <<cb_args, cb_calls, outlet_temp, dash_session, tabularData, nonDash>>

DashNext ==
    \E c \in Callbacks :
       \/ SolveEnter(c)
       \/ SolveStandardInitialize(c)
       \/ SolveSetMaterial(c)
       \/ SolveSetColdVmag(c)
       \/ SolveSetHotVmag(c)
       \/ SolveSetColdT(c)
       \/ SolveSetHotT(c)
       \/ SolveIterate(c)
       \/ SolveCompute(c)
       \/ SolveAppend(c)
       \/ SolveReturn(c)

\* the positions of a call in the calls callback c has made
CallsAt(c, name) == {x \in 1..Len(cb_calls[c]) : cb_calls[c][x] = name}

\* C15: a Solve callback run with "Initialize" enabled initializes the
\* solution before the iterations of that callback are run, once, and a Solve
\* callback run with it disabled issues no initialization.
C15_InitializeBeforeIterate ==
    \A c \in Callbacks : cb_pc[c] # "idle" =>
       IF cb_args[c].initialize = List(<<"Initialize">>)
       THEN /\ Cardinality(CallsAt(c, "standard_initialize")) <= 1
            /\ \A x \in CallsAt(c, "iterate") :
                  \E y \in CallsAt(c, "standard_initialize") : y < x
       ELSE CallsAt(c, "standard_initialize") = {}

C15_Witness ==
    \E c, d \in Callbacks :
       /\ cb_pc[c] = "returned" /\ cb_pc[d] = "returned"
       /\ cb_args[c].initialize = List(<<"Initialize">>) /\ CallsAt(c, "iterate") # {}
       /\ cb_args[d].initialize = List(<<>>) /\ CallsAt(d, "iterate") # {}
       /\ dash_session.initializations = 1

\* the settings a row of the history table shows
RowSettings(row) ==
    [material |-> row.MATtable, cold_vmag |-> row.MIVtable, hot_vmag |-> row.SIVtable,
     cold_t |-> row.MITtable, hot_t |-> row.SITtable]

\* C16: every row of the history table pairs the settings of one Solve click
\* with the outlet temperature computed while exactly those settings were
\* applied to the session, also when two Solve callbacks overlap.
C16_RowMatchesSettings ==
    \A x \in 1..Len(tabularData) :
       /\ tabularData[x].AOTtable.iterated_under = RowSettings(tabularData[x])
       /\ tabularData[x].AOTtable.computed_under = RowSettings(tabularData[x])

(***************************************************************************)
(* The claims about the exhaust manifold script                            *)
(***************************************************************************)
\* the solver runs the script has waited on
RunsWaitedOn == {w \in ex_waited : w[1] = "run"}

\* the collation has read, or is about to read, the results of the solvers
Collating == ex_pc \in {"collate_mass", "collate_pressure", "done"}

\* C4: every solver run is started before any run is waited on, and the
\* per-solver results are read for collation only after the future of every
\* solver run has completed.
C4_RunsBeforeCollation ==
    /\ (ex_pc = "wait_runs" \/ RunsWaitedOn # {}) =>
          /\ Len(runs) = Len(solvers)
          /\ \A x \in 1..Len(solvers) : run_future[solvers[x].id] # "none"
    /\ Collating =>
          /\ Len(runs) = NumSolvers
          /\ \A k \in SolverIds : run_future[k] = "done"
    /\ \A x \in 1..Len(mass_flow_results) :
          mass_flow_results[x] =
             ResultsRow(solver_obj[solvers[x].id],
                        Reports("flux", solvers[x].id, sessions[solvers[x].id]))
    /\ \A x \in 1..Len(pressure_results) :
          pressure_results[x] =
             ResultsRow(solver_obj[solvers[x].id],
                        Reports("pressure", solvers[x].id, sessions[solvers[x].id]))

C4_Witness ==
    /\ ex_pc = "done"
    /\ Len(mass_flow_results) = NumSolvers
    /\ Len(pressure_results) = NumSolvers
    /\ \A k \in SolverIds : run_future[k] = "done"
    /\ \A x \in 1..NumSolvers : Len(mass_flow_results[x]) = 6

\* the solver deployments the script has waited on
DeploymentsWaitedOn == {w[2] : w \in {v \in ex_waited : v[1] = "solver"}}

\* C6: the mesh transfer begins only after the meshing run has completed and
\* every solver deployment has been waited on, and no solver run is started
\* before the transfer call has returned.
C6_TransferOrder ==
    /\ transfer # "none" =>
          /\ meshing_run = "done"
          /\ <<"meshing_run", 0>> \in ex_waited
          /\ DeploymentsWaitedOn = SolverIds
    /\ (runs # <<>> \/ \E k \in SolverIds : run_future[k] # "none") =>
          transfer = "returned"

C6_Witness ==
    /\ transfer = "returned"
    /\ Len(runs) = NumSolvers
    /\ \E k \in SolverIds : run_future[k] = "running"
    /\ meshing_run = "done"

\* the script is waiting, or has waited, on the result of a future
WaitingOrWaited ==
    \/ ex_waited # {}
    \/ ex_pc \in {"wait_meshing", "wait_solvers", "wait_meshing_run", "wait_runs"}

\* C7: the start-up is executed in parallel: the deployment of the meshing
\* instance and of every solver instance are all started before the script
\* waits on the result of any of them.
C7_ParallelStartUp ==
    WaitingOrWaited =>
       /\ meshing_future # "none"
       /\ Len(solvers) = NumSolvers
       /\ \A k \in SolverIds : deploy_future[k] # "none"

C7_Witness ==
    /\ ex_pc = "wait_meshing"
    /\ ex_waited = {}
    /\ meshing_future = "running"
    /\ \A k \in SolverIds : deploy_future[k] = "running"

\* the pairs (inlet velocity, inlet turbulent intensity) of the input lists
InputPairs ==
    {<<inlet_velocities[a], inlet_turbulent_intensities[b]>> :
        a \in 1..Len(inlet_velocities), b \in 1..Len(inlet_turbulent_intensities)}

\* C8: each solver is set up with different boundary condition data: exactly
\* one solver is deployed for each pair of the two input lists, no two solvers
\* hold the same pair, and each solver run sets the three inlets of its own
\* session to its own pair.
C8_OwnBoundaryData ==
    /\ \A k, l \in 1..Len(solvers) : k # l => deploy_args[k] # deploy_args[l]
    /\ ex_pc \notin {"create_meshing", "create_solvers"} =>
          \A pr \in InputPairs :
             Cardinality({k \in SolverIds : deploy_args[k] = pr}) = 1
    /\ \A k \in SolverIds : deploy_future[k] = "done" =>
          /\ <<solver_obj[k].inlet_velocity,
               solver_obj[k].inlet_turbulent_intensity>> = deploy_args[k]
          /\ \A l \in SolverIds :
                (l # k /\ deploy_future[l] = "done") =>
                    solver_obj[l].session # solver_obj[k].session
    /\ \A k \in SolverIds : run_future[k] = "done" =>
          \A nm \in InletNames :
             sessions[solver_obj[k].session].inlets[nm] =
                [vmag |-> deploy_args[k][1], turb_intensity |-> deploy_args[k][2]]

C8_Witness ==
    /\ ex_pc = "done"
    /\ \A k \in SolverIds : run_future[k] = "done"
    /\ \A k, l \in SolverIds :
          k # l => sessions[k].inlets["inlet-1"] # sessions[l].inlets["inlet-1"]

\* C9 as the spec states it: no operation is attempted again after an attempt
\* of it has failed; an attempt of update_meshing_display beyond the first is
\* made only after a failed one.
C9_NoRetry ==
    \A t \in 1..Len(MeshingTasks) : display_attempts[t] <= 1

\* C9, amended: the only retry is that of update_meshing_display, which
\* saves and downloads the picture of a task again only after an attempt that
\* left no file, at most RetryLimit + 1 times after the first attempt, and
\* then gives up with no picture in the gallery; the draw is not repeated; a
\* failed deployment, meshing run or solver run is not started again.
C9_BoundedRetry ==
    /\ [](\A t \in 1..Len(MeshingTasks) :
             /\ display_attempts[t] <= RetryLimit + 2
             /\ display_attempts[t] <= display_failures[t] + 1
             /\ display_failures[t] <= display_attempts[t]
             /\ (display_failures[t] = RetryLimit + 2) =>
                   \A g \in 1..Len(gallery) : gallery[g][2] # MeshingTasks[t])
    /\ [](meshing_session.drawn <= 1 /\ mr_retry <= RetryLimit + 1)
    /\ [][/\ meshing_future = "failed" => meshing_future' = "failed"
          /\ meshing_run = "failed" => meshing_run' = "failed"
          /\ \A k \in SolverIds :
                /\ deploy_future[k] = "failed" => deploy_future'[k] = "failed"
                /\ run_future[k] = "failed" => run_future'[k] = "failed"]_vars

C9_Witness ==
    \E t \in 1..Len(MeshingTasks) :
       /\ display_attempts[t] = RetryLimit + 2
       /\ display_failures[t] = RetryLimit + 2
       /\ mr_task > t

\* the script is past the loop that waits on the solver deployments
PastSolverWait ==
    ex_pc \in {"wait_meshing_run", "transfer", "transferring", "start_runs",
               "wait_runs", "gallery", "collate_mass", "collate_pressure",
               "done", "crashed"}

\* C17: after the loop that waits on solver deployment every element of
\* solvers is a deployed ExhaustFlowSolver, also when a deployment raised: no
\* unresolved future is left in the list.
C17_OnlySolversAfterWait ==
    (PastSolverWait /\ DeploymentsWaitedOn = SolverIds) =>
        \A x \in 1..Len(solvers) : solvers[x].kind = "solver"

(***************************************************************************)
(* The claims about the graphics demo and the imports                      *)
(***************************************************************************)
\* C5: the script blocks until the asynchronously dispatched iterate(100) has
\* finished: the plotter windows are closed only after the 100 solver
\* iterations have completed.
C5_CloseAfterIterations ==
    gfx_windows = "closed" => (gfx_iterations = IterateCount /\ gfx_future = "done")

\* C10: in every script with the fallback, when only ansys.fluent.post can be
\* imported the script gets through all of its import statements.
C10_FallbackSuffices ==
    ("post" \in imp_installed /\ "visualization" \notin imp_installed) =>
        imp_status # "ImportError"

(***************************************************************************)
(* The specifications: one script runs, the others are not started.        *)
(***************************************************************************)
InitPID == PidInit /\ DoeIdle /\ ExIdle /\ GfxIdle /\ ImpIdle /\ FitIdle /\ RepIdle /\ DashIdle
SpecPID == InitPID /\ [][PidNext]_vars

InitDOE == DoeInit /\ PidIdle /\ ExIdle /\ GfxIdle /\ ImpIdle /\ FitIdle /\ RepIdle /\ DashIdle
SpecDOE == InitDOE /\ [][DoeNext]_vars

InitExhaust == ExInit /\ PidIdle /\ DoeIdle /\ GfxIdle /\ ImpIdle /\ FitIdle /\ RepIdle /\ DashIdle
SpecExhaust == InitExhaust /\ [][ExhaustNext]_vars

InitGraphics == GfxInit /\ PidIdle /\ DoeIdle /\ ExIdle /\ ImpIdle /\ FitIdle /\ RepIdle /\ DashIdle
SpecGraphics == InitGraphics /\ [][GraphicsNext]_vars

InitImports == ImpInit /\ PidIdle /\ DoeIdle /\ ExIdle /\ GfxIdle /\ FitIdle /\ RepIdle /\ DashIdle
SpecImports == InitImports /\ [][ImportsNext]_vars

InitFit == FitInit /\ PidIdle /\ DoeIdle /\ ExIdle /\ GfxIdle /\ ImpIdle /\ RepIdle /\ DashIdle
SpecFit == InitFit /\ [][FitNext]_vars

InitReport == RepInit /\ PidIdle /\ DoeIdle /\ ExIdle /\ GfxIdle /\ ImpIdle /\ FitIdle /\ DashIdle
SpecReport == InitReport /\ [][ReportNext]_vars

InitDash == DashInit /\ PidIdle /\ DoeIdle /\ ExIdle /\ GfxIdle /\ ImpIdle /\ FitIdle /\ RepIdle
SpecDash == InitDash /\ [][DashNext]_vars

====
